---- MODULE Spec2Model ----
(***************************************************************************)
(* containers.py: a command-line dispatcher over a docker compose stack    *)
(* (a "db" container and a "backend" container), the database inside the   *)
(* db container, the dump files on the local disk and the migration files  *)
(* of the django backend.                                                  *)
(*                                                                         *)
(* One behaviour is a sequence of invocations of the script.  Each         *)
(* invocation runs the module-level code, then main(), one call of an      *)
(* external collaborator (docker client, subprocess, file system) per      *)
(* step.  What the external tools do is chosen nondeterministically among  *)
(* the outcomes the code distinguishes (exit status zero or not, a call    *)
(* that raises).                                                           *)
(***************************************************************************)
EXTENDS Integers, Sequences, FiniteSets, TLC

VARIABLES
    configOK,            \* .env and compose.yaml both exist (line 17)
    services,            \* keys of docker_compose['services'], in file order
    status,              \* container name -> "absent" | "exited" | "running"
    db,                  \* content of database DB_NAME inside the db container
    localFiles,          \* dump file name -> bytes on the local disk
    ctrFiles,            \* path inside the db container -> bytes
    migs,                \* files of the backend source tree on the local disk
    argv,                \* sys.argv of the running invocation
    pc,                  \* position of the running invocation
    containers_running,  \* main's local of that name (line 223)
    ret,                 \* what the command's function returned: "None", "True", "False"
    dump_result,         \* the last (exit_code, output) of exec_run
    trace,               \* calls made so far by the running invocation
    migs0,               \* migs when the invocation started
    files0,              \* localFiles when the invocation started
    snap,                \* the last successful dump: its file and the db it saw
    runs                 \* invocations started so far

vars == <<configOK, services, status, db, localFiles, ctrFiles, migs, argv, pc,
          containers_running, ret, dump_result, trace, migs0, files0, snap, runs>>

-----------------------------------------------------------------------------
(* Bounds and universes                                                    *)

\* Largest number of command-line arguments after the script name.
MaxArgs == 3
\* Largest number of invocations of the script in one behaviour.
MaxRuns == 4

Script == "containers.py"

db_container_name == "db"
django_container_name == "backend"

\* compose.yaml declares the two containers the script names, and possibly more.
Topologies == { <<"db", "backend">>, <<"db", "backend", "frontend">> }
Containers == {"db", "backend", "frontend"}

Commands == {"help", "-h", "--help", "build", "up", "down", "shell", "dump",
             "restore", "resetdb", "resetdjango", "manage"}
\* First arguments tried: every command and one word that is no command.
FirstWords == Commands \cup {"bogus"}
\* Further arguments tried.
ArgWords == {"up", "db.dump", "custom.dump"}

\* A dump may be written to any name given on the command line, or to db.dump.
DumpNames == ArgWords \cup {"db.dump"}

\* Arguments after the second only count by their number.
Padding(n) == [i \in 1..n |-> "up"]

Argvs == {<<Script>>}
         \cup {<<Script, c>> : c \in FirstWords}
         \cup {<<Script, c, a>> \o Padding(n) :
                   c \in FirstWords, a \in ArgWords, n \in 0..(MaxArgs - 2)}

\* Database content: dropped, freshly created, or holding one of two data sets.
DbData == {"empty", "rows"}
NoDb == "absent"

\* Bytes: nothing, a pg_dump archive of some database content, or tool error text.
NoFile == [kind |-> "none", content |-> ""]
Archive(c) == [kind |-> "dump", content |-> c]
ErrText == [kind |-> "err", content |-> ""]

\* Files of the backend tree.  dir is the directory below backend/<app>/.
InitPy == [dir |-> "migrations", name |-> <<"__init__.py">>, ext |-> "py"]
Mig0001 == [dir |-> "migrations", name |-> <<"0001_initial", ".py">>, ext |-> "py"]
Mig0001Pyc == [dir |-> "migrations", name |-> <<"0001_initial", ".pyc">>, ext |-> "pyc"]
ModelsPy == [dir |-> "", name |-> <<"models", ".py">>, ext |-> "py"]
TreeFiles == {InitPy, Mig0001, Mig0001Pyc, ModelsPy}

CtrPath(dir, name) == [dir |-> dir, name |-> name]
CtrPaths == {CtrPath(d, n) : d \in {"/tmp", "/"}, n \in DumpNames}

NoSnap == [file |-> "", db |-> NoDb]

None == "None"
PyBool(b) == IF b THEN "True" ELSE "False"

Ev(op, tgt, cmd, code) == [op |-> op, tgt |-> tgt, cmd |-> cmd, code |-> code]

Range(s) == {s[i] : i \in 1..Len(s)}

NoResult == [code |-> 0 - 1, out |-> NoFile]

-----------------------------------------------------------------------------
(* Pure parts of the script                                                *)

\* sys.argv[i] and len(sys.argv): Python counts from 0.
SysArgv(av, i) == av[i + 1]
ArgLen(av) == Len(av)

\* get_container: False for a name compose.yaml does not declare, None when the
\* runtime raises NotFound, else the container.
get_container(name) ==
    IF name \notin Range(services) THEN "False"
    ELSE IF status[name] = "absent" THEN None
    ELSE name

Falsy(container) == container \in {"False", None}

\* The runtime calls get_container makes: none for an undeclared name.
LookupEvents(name) ==
    IF name \in Range(services) THEN <<Ev("get", name, <<>>, 0)>> ELSE <<>>

\* is_running: the lookup, then the read of attrs["State"]["Status"].
is_running(name) ==
    IF Falsy(get_container(name)) THEN FALSE ELSE status[name] = "running"

IsRunningEvents(name) ==
    LookupEvents(name) \o
    (IF Falsy(get_container(name)) THEN <<>> ELSE <<Ev("status", name, <<>>, 0)>>)

\* are_containers_running over services[i..]: stops at the first one not running.
RECURSIVE RunningFrom(_)
RunningFrom(i) ==
    IF i > Len(services) THEN TRUE
    ELSE IF ~is_running(services[i]) THEN FALSE
    ELSE RunningFrom(i + 1)

are_containers_running == RunningFrom(1)

RECURSIVE RunningEventsFrom(_)
RunningEventsFrom(i) ==
    IF i > Len(services) THEN <<>>
    ELSE IF ~is_running(services[i]) THEN IsRunningEvents(services[i])
    ELSE IsRunningEvents(services[i]) \o RunningEventsFrom(i + 1)

\* delete_migrations: what the two globs and the '__init__.py' filter select.
Contains(name, token) == token \in Range(name)

\* Mutant: the second glob, for the .pyc files, is forgotten.
MigrationsPyOnly(tree) ==
    {f \in tree : f.dir = "migrations" /\ f.ext = "py" /\ ~Contains(f.name, "__init__.py")}

MigrationsToDelete(tree) ==
    {f \in tree : f.dir = "migrations" /\ f.ext = "py" /\ ~Contains(f.name, "__init__.py")}
    \cup {f \in tree : f.dir = "migrations" /\ f.ext = "pyc"}

RECURSIVE RemoveEvents(_)
RemoveEvents(fs) ==
    IF fs = {} THEN <<>>
    ELSE LET f == CHOOSE x \in fs : TRUE
         IN  <<Ev("remove", "", f.name, 0)>> \o RemoveEvents(fs \ {f})

\* The if/elif chain of main (lines 227-268): which branch runs.
Branch(av, running) ==
    IF ArgLen(av) = 1 THEN "usage"
    ELSE IF SysArgv(av, 1) \in {"-h", "--help", "help"} THEN "usage"
    ELSE IF SysArgv(av, 1) = "build" THEN "build"
    ELSE IF SysArgv(av, 1) = "up" THEN "up"
    ELSE IF ~running THEN "refused"
    ELSE IF SysArgv(av, 1) = "shell" THEN "shell"
    ELSE IF SysArgv(av, 1) = "down" THEN "down"
    ELSE IF SysArgv(av, 1) = "dump" THEN "dump"
    ELSE IF SysArgv(av, 1) = "restore" THEN "restore"
    ELSE IF SysArgv(av, 1) = "resetdb" THEN "resetdb"
    ELSE IF SysArgv(av, 1) = "resetdjango" THEN "resetdjango"
    ELSE IF SysArgv(av, 1) = "manage" THEN "manage"
    ELSE "notfound"

\* dump's file: sys.argv[2] when given, else the default of dump_db.
DumpTarget(av) == IF ArgLen(av) > 2 THEN SysArgv(av, 2) ELSE "db.dump"

\* Mutant: the archive is unpacked at the root of the container, not under path.
ArchiveDestRoot(path, artifact_file) == CtrPath("/", artifact_file)

\* create_archive names the entry after the file and put_archive unpacks it under path.
ArchiveDest(path, artifact_file) == CtrPath(path, artifact_file)

\* The file pg_restore is told to read: /tmp/{dump_filename}.
RestoreSource(dump_filename) == CtrPath("/tmp", dump_filename)

\* Mutant: the file check of restore_db lets every name through.
isfileAlways(name) == TRUE

\* os.path.isfile on a dump file name.
isfile(name) == name \in DOMAIN localFiles /\ localFiles[name] # NoFile

Say(msg) == Ev("print", "", <<msg>>, 0)
Usage == <<Say("usage")>>
Subprocess(cmd) == Ev("subprocess", "", cmd, 0)

-----------------------------------------------------------------------------
(* State                                                                   *)

Terminal == {"idle", "done", "crashed", "exited"}

Init ==
    /\ configOK \in BOOLEAN
    /\ services \in Topologies
    /\ status = [c \in Containers |-> "absent"]
    /\ db = "rows"
    /\ localFiles = [n \in DumpNames |-> NoFile]
    /\ ctrFiles = [p \in CtrPaths |-> NoFile]
    /\ migs = TreeFiles
    /\ argv = <<Script>>
    /\ pc = "idle"
    /\ containers_running = FALSE
    /\ ret = None
    /\ dump_result = NoResult
    /\ trace = <<>>
    /\ migs0 = TreeFiles
    /\ files0 = [n \in DumpNames |-> NoFile]
    /\ snap = NoSnap
    /\ runs = 0

world == <<configOK, services, status, db, localFiles, ctrFiles, migs, snap>>

\* A new invocation begins: the locals of the previous one are gone.
Fresh(av) ==
    /\ pc \in Terminal
    /\ runs < MaxRuns
    /\ runs' = runs + 1
    /\ argv' = av
    /\ ret' = None
    /\ dump_result' = NoResult
    /\ migs0' = migs
    /\ files0' = localFiles

\* Lines 17-18: .env or compose.yaml is missing, the script exits at once.
ExitNoConfig ==
    \E av \in Argvs :
        /\ Fresh(av)
        /\ ~configOK
        /\ pc' = "exited"
        /\ trace' = <<>>
        /\ containers_running' = FALSE
        /\ UNCHANGED world

\* Lines 20-33, then main up to the if chain: are_containers_running() and
\* delete_migrations() (lines 223-225).
Start ==
    \E av \in Argvs :
        /\ Fresh(av)
        /\ configOK
        /\ containers_running' = are_containers_running
        /\ migs' = migs \ MigrationsToDelete(migs)
        /\ trace' = RunningEventsFrom(1) \o RemoveEvents(MigrationsToDelete(migs))
        /\ pc' = "dispatch"
        /\ UNCHANGED <<configOK, services, status, db, localFiles, ctrFiles, snap>>

Dispatching(b) == pc = "dispatch" /\ Branch(argv, containers_running) = b

Finish(events, value) ==
    /\ trace' = trace \o events
    /\ ret' = value
    /\ pc' = "done"

Crash(events) ==
    /\ trace' = trace \o events
    /\ pc' = "crashed"
    /\ UNCHANGED ret

locals == <<argv, containers_running, migs0, files0, runs>>

\* Lines 227-230: no argument, or a help form.
ShowUsage ==
    /\ Dispatching("usage")
    /\ Finish(Usage, None)
    /\ UNCHANGED <<world, locals, dump_result>>

\* What "docker compose up -d" does when it works: every declared service runs.
ComposeUpEffect(ok) ==
    IF ok THEN [c \in Containers |-> IF c \in Range(services) THEN "running" ELSE status[c]]
    ELSE status

\* Lines 231-234: build, and up when the second argument says so.
Build ==
    /\ Dispatching("build")
    /\ IF ArgLen(argv) > 2 /\ SysArgv(argv, 2) = "up"
       THEN /\ \E ok \in BOOLEAN : status' = ComposeUpEffect(ok)
            /\ Finish(<<Subprocess(<<"compose", "build">>),
                        Subprocess(<<"compose", "up">>)>>, None)
       ELSE /\ status' = status
            /\ Finish(<<Subprocess(<<"compose", "build">>)>>, None)
    /\ UNCHANGED <<configOK, services, db, localFiles, ctrFiles, migs, snap,
                   locals, dump_result>>

\* Lines 235-236.
Up ==
    /\ Dispatching("up")
    /\ \E ok \in BOOLEAN : status' = ComposeUpEffect(ok)
    /\ Finish(<<Subprocess(<<"compose", "up">>)>>, None)
    /\ UNCHANGED <<configOK, services, db, localFiles, ctrFiles, migs, snap,
                   locals, dump_result>>

\* Lines 237-238: some declared service is not running.
Refuse ==
    /\ Dispatching("refused")
    /\ Finish(<<Say("run up first")>>, None)
    /\ UNCHANGED <<world, locals, dump_result>>

\* Lines 239-244: both messages are printed without leaving the branch, and
\* sys.argv[2] raises IndexError when there is no second argument.
Shell ==
    /\ Dispatching("shell")
    /\ LET complaints ==
               (IF ArgLen(argv) < 3 THEN <<Say("Missing container name!")>> ELSE <<>>)
               \o (IF ArgLen(argv) > 3 THEN <<Say("Too many arguments!")>> ELSE <<>>)
       IN  IF ArgLen(argv) < 3
           THEN Crash(complaints)
           ELSE Finish(complaints \o
                       <<Subprocess(<<"exec", SysArgv(argv, 2), "sh">>)>>, None)
    /\ UNCHANGED <<world, locals, dump_result>>

\* Lines 245-246: "docker compose down" removes the containers when it works.
Down ==
    /\ Dispatching("down")
    /\ \E ok \in BOOLEAN :
          IF ok
          THEN /\ status' = [c \in Containers |->
                               IF c \in Range(services) THEN "absent" ELSE status[c]]
               /\ ctrFiles' = [p \in CtrPaths |-> NoFile]
          ELSE UNCHANGED <<status, ctrFiles>>
    /\ Finish(<<Subprocess(<<"compose", "down">>)>>, None)
    /\ UNCHANGED <<configOK, services, db, localFiles, migs, snap, locals, dump_result>>

\* Lines 263-264: manage.py runs inside the backend and may change the database.
Manage ==
    /\ Dispatching("manage")
    /\ \E d \in {db} \cup (IF db = NoDb THEN {} ELSE DbData) :
          /\ db' = d
          /\ snap' = IF d = db THEN snap ELSE NoSnap
    /\ Finish(<<Subprocess(<<"exec", django_container_name, "manage.py">>
                           \o SubSeq(argv, 3, Len(argv)))>>, None)
    /\ UNCHANGED <<configOK, services, status, localFiles, ctrFiles, migs,
                   locals, dump_result>>

\* Lines 266-268.
NotFound ==
    /\ Dispatching("notfound")
    /\ Finish(<<Say("not found")>> \o Usage, None)
    /\ UNCHANGED <<world, locals, dump_result>>


-----------------------------------------------------------------------------
(* dump_db                                                                 *)

\* exec_run of pg_dump in the db container (line 39): it fails when there is no
\* database, and may fail otherwise; on success its output is the archive.
PgDumpResults ==
    IF db = NoDb THEN {[code |-> 1, out |-> ErrText]}
    ELSE {[code |-> 0, out |-> Archive(db)], [code |-> 1, out |-> ErrText]}

\* Mutant: the file is opened and written before the exit status is looked at.
DumpOutcomeWriteFirst(dump_filename, result) ==
    [files |-> [localFiles EXCEPT ![dump_filename] = result.out],
     value |-> result.code = 0,
     events |-> <<Ev("write", dump_filename, <<>>, 0)>>]

\* Lines 41-50: what dump_db does with the result of pg_dump.
DumpOutcome(dump_filename, result) ==
    IF result.code # 0
    THEN [files |-> localFiles, value |-> FALSE,
          events |-> <<Say("Error while dumping")>>]
    ELSE [files |-> [localFiles EXCEPT ![dump_filename] = result.out], value |-> TRUE,
          events |-> <<Ev("write", dump_filename, <<>>, 0)>>]

\* Lines 247-251 and dump_db.  exec_run on a container that was not found raises.
DumpDb ==
    /\ Dispatching("dump")
    /\ LET container == get_container(db_container_name)
           target == DumpTarget(argv)
       IN  IF Falsy(container)
           THEN /\ Crash(LookupEvents(db_container_name))
                /\ UNCHANGED <<localFiles, dump_result, snap>>
           ELSE \E result \in PgDumpResults :
                   LET o == DumpOutcome(target, result)
                   IN  /\ dump_result' = result
                       /\ localFiles' = o.files
                       /\ snap' = IF o.value THEN [file |-> target, db |-> db]
                                  ELSE snap
                       /\ Finish(LookupEvents(db_container_name)
                                 \o <<Ev("exec", container, <<"pg_dump">>, result.code)>>
                                 \o o.events, PyBool(o.value))
    /\ UNCHANGED <<configOK, services, status, db, ctrFiles, migs, locals>>

-----------------------------------------------------------------------------
(* stop_container and start_container                                      *)

\* Lines 167-178: the container is stopped when it is found.
StopEvents(name) ==
    LookupEvents(name) \o
    (IF Falsy(get_container(name)) THEN <<Say("Impossible to stop")>>
     ELSE <<Ev("stop", name, <<>>, 0)>>)

StopEffect(name) ==
    IF Falsy(get_container(name)) THEN status ELSE [status EXCEPT ![name] = "exited"]

\* Lines 154-165: the container is started when it is found.
StartEvents(name) ==
    LookupEvents(name) \o
    (IF Falsy(get_container(name)) THEN <<Say("Impossible to start")>>
     ELSE <<Ev("start", name, <<>>, 0)>>)

StartEffect(name) ==
    IF Falsy(get_container(name)) THEN status ELSE [status EXCEPT ![name] = "running"]

-----------------------------------------------------------------------------
(* restore_db                                                              *)

\* Lines 252-258 and 70-72: the argument count, then the file check.
Restore ==
    /\ Dispatching("restore")
    /\ IF ArgLen(argv) < 3
       THEN Finish(<<Say("Missing filename of the dump to restore!")>>, None)
       ELSE IF ArgLen(argv) > 3
       THEN Finish(<<Say("Too many arguments!")>>, None)
       ELSE IF ~isfile(SysArgv(argv, 2))
       THEN Finish(<<Say("File doesn't exists!")>>, PyBool(FALSE))
       ELSE /\ pc' = "restore_stop"
            /\ UNCHANGED <<trace, ret>>
    /\ UNCHANGED <<world, locals, dump_result>>

\* Lines 74-75.
RestoreStop ==
    /\ pc = "restore_stop"
    /\ status' = StopEffect(django_container_name)
    /\ trace' = trace \o LookupEvents(db_container_name)
                      \o StopEvents(django_container_name)
    /\ pc' = "restore_copy"
    /\ UNCHANGED <<configOK, services, db, localFiles, ctrFiles, migs, snap,
                   locals, ret, dump_result>>

\* Lines 77-79, copy_to_container and create_archive.  Reading the file or
\* put_archive may raise; nothing in restore_db catches it.
RestoreCopy ==
    /\ pc = "restore_copy"
    /\ LET f == SysArgv(argv, 2)
           container == get_container(db_container_name)
       IN  \/ /\ ~Falsy(container)
              /\ ctrFiles' = [ctrFiles EXCEPT ![ArchiveDest("/tmp", f)] = localFiles[f]]
              /\ trace' = Append(trace, Ev("put", container, <<f>>, 0))
              /\ pc' = "restore_exec"
              /\ UNCHANGED ret
           \/ /\ Crash(<<Ev("put", container, <<f>>, 1)>>)
              /\ UNCHANGED ctrFiles
    /\ UNCHANGED <<configOK, services, status, db, localFiles, migs, snap,
                   locals, dump_result>>

\* exec_run of pg_restore --clean --create on a file of the db container (line 82):
\* it fails when the file is no archive; when it fails the database may be gone.
PgRestoreResults(source) ==
    IF ctrFiles[source].kind # "dump"
    THEN {[code |-> 1, db |-> db]}
    ELSE {[code |-> 0, db |-> ctrFiles[source].content],
          [code |-> 1, db |-> db], [code |-> 1, db |-> NoDb]}

\* Lines 81-84.
RestoreExec ==
    /\ pc = "restore_exec"
    /\ \E r \in PgRestoreResults(RestoreSource(SysArgv(argv, 2))) :
          /\ db' = r.db
          /\ dump_result' = [code |-> r.code, out |-> NoFile]
          /\ snap' = IF r.db = db \/ (r.code = 0 /\ snap.file = SysArgv(argv, 2))
                     THEN snap ELSE NoSnap
          /\ trace' = Append(trace, Ev("exec", db_container_name, <<"pg_restore">>, r.code))
    /\ pc' = "restore_start"
    /\ UNCHANGED <<configOK, services, status, localFiles, ctrFiles, migs, locals, ret>>

\* Lines 86-92.
RestoreStart ==
    /\ pc = "restore_start"
    /\ status' = StartEffect(django_container_name)
    /\ Finish(StartEvents(django_container_name)
              \o (IF dump_result.code # 0 THEN <<Say("Error while restoring")>> ELSE <<>>),
              PyBool(dump_result.code = 0))
    /\ UNCHANGED <<configOK, services, db, localFiles, ctrFiles, migs, snap,
                   locals, dump_result>>

-----------------------------------------------------------------------------
(* reset_db, create_db, reset_django, django_migrate                       *)

\* Lines 261-262 and 125: resetdjango deletes the migrations, then resets the db.
ResetDjango ==
    /\ Dispatching("resetdjango")
    /\ migs' = migs \ MigrationsToDelete(migs)
    /\ trace' = trace \o RemoveEvents(MigrationsToDelete(migs))
    /\ pc' = "reset_db"
    /\ UNCHANGED <<configOK, services, status, db, localFiles, ctrFiles, snap,
                   locals, ret, dump_result>>

\* Lines 107-108: reset_db, called by resetdb (lines 259-260) or by reset_django.
ResetStop ==
    /\ Dispatching("resetdb") \/ pc = "reset_db"
    /\ status' = StopEffect(django_container_name)
    /\ trace' = trace \o LookupEvents(db_container_name)
                      \o StopEvents(django_container_name)
    /\ pc' = "reset_drop"
    /\ UNCHANGED <<configOK, services, db, localFiles, ctrFiles, migs, snap,
                   locals, ret, dump_result>>

\* exec_run of dropdb (line 111): it fails when there is no database, and may
\* fail otherwise.
DropResults ==
    IF db = NoDb THEN {[code |-> 1, db |-> db]}
    ELSE {[code |-> 0, db |-> NoDb], [code |-> 1, db |-> db]}

\* Mutant: a failed drop returns at once to the restart, without create_db.
AfterDropSkipsCreate(code) == IF code # 0 THEN "reset_start" ELSE "reset_create"

\* Where reset_db goes after dropdb (lines 112-117): on to create_db either way.
AfterDrop(code) == "reset_create"

\* Lines 110-115.
ResetDrop ==
    /\ pc = "reset_drop"
    /\ \E r \in DropResults :
          /\ db' = r.db
          /\ dump_result' = [code |-> r.code, out |-> NoFile]
          /\ snap' = IF r.db = db THEN snap ELSE NoSnap
          /\ trace' = Append(trace, Ev("exec", db_container_name, <<"dropdb">>, r.code))
          /\ pc' = AfterDrop(r.code)
    /\ UNCHANGED <<configOK, services, status, localFiles, ctrFiles, migs, locals, ret>>

\* exec_run of createdb (line 98): it fails when the database exists, and may
\* fail otherwise.
CreateResults ==
    IF db # NoDb THEN {[code |-> 1, db |-> db]}
    ELSE {[code |-> 0, db |-> "empty"], [code |-> 1, db |-> db]}

\* Line 117 and create_db (lines 94-104); its result is dropped by reset_db.
ResetCreate ==
    /\ pc = "reset_create"
    /\ \E r \in CreateResults :
          /\ db' = r.db
          /\ snap' = IF r.db = db THEN snap ELSE NoSnap
          /\ trace' = trace \o LookupEvents(db_container_name)
                            \o <<Ev("exec", db_container_name, <<"createdb">>, r.code)>>
    /\ pc' = "reset_start"
    /\ UNCHANGED <<configOK, services, status, localFiles, ctrFiles, migs,
                   locals, ret, dump_result>>

\* What reset_db returns (lines 120-122), from the exit status of dropdb.
ResetValue(drop_code) == drop_code = 0

\* Lines 118-122; reset_django goes on to django_migrate (line 127).
ResetStart ==
    /\ pc = "reset_start"
    /\ status' = StartEffect(django_container_name)
    /\ trace' = trace \o StartEvents(django_container_name)
    /\ ret' = PyBool(ResetValue(dump_result.code))
    /\ pc' = IF Branch(argv, containers_running) = "resetdjango" THEN "migrate" ELSE "done"
    /\ UNCHANGED <<configOK, services, db, localFiles, ctrFiles, migs, snap,
                   locals, dump_result>>

\* Mutant: migrate is issued before makemigrations.
MigrateCallsSwapped ==
    <<Subprocess(<<"exec", django_container_name, "manage.py", "migrate">>),
      Subprocess(<<"exec", django_container_name, "manage.py", "makemigrations">>)>>

\* The two subprocesses of django_migrate, in the order of lines 188-189.
MigrateCalls ==
    <<Subprocess(<<"exec", django_container_name, "manage.py", "makemigrations">>),
      Subprocess(<<"exec", django_container_name, "manage.py", "migrate">>)>>

\* django_migrate (lines 187-189): makemigrations writes the migration files of
\* the mounted source tree, migrate may change the database; both need the
\* backend to be running.
DjangoMigrate ==
    /\ pc = "migrate"
    /\ migs' = IF status[django_container_name] = "running"
               THEN migs \cup {Mig0001} ELSE migs
    /\ \E d \in {db} \cup (IF db = NoDb \/ status[django_container_name] # "running"
                           THEN {} ELSE DbData) :
          /\ db' = d
          /\ snap' = IF d = db THEN snap ELSE NoSnap
    /\ trace' = trace \o MigrateCalls
    /\ pc' = "done"
    /\ UNCHANGED <<configOK, services, status, localFiles, ctrFiles, locals, ret,
                   dump_result>>

-----------------------------------------------------------------------------
Next ==
    \/ ExitNoConfig
    \/ Start
    \/ ShowUsage
    \/ Build
    \/ Up
    \/ Refuse
    \/ Shell
    \/ Down
    \/ DumpDb
    \/ Restore
    \/ RestoreStop
    \/ RestoreCopy
    \/ RestoreExec
    \/ RestoreStart
    \/ ResetDjango
    \/ ResetStop
    \/ ResetDrop
    \/ ResetCreate
    \/ ResetStart
    \/ DjangoMigrate
    \/ Manage
    \/ NotFound

Spec == Init /\ [][Next]_vars


-----------------------------------------------------------------------------
(* Vocabulary of the properties                                            *)

RuntimeOps == {"get", "status", "stop", "start", "exec", "put"}
MutatingOps == {"stop", "start", "exec", "put"}
SideEffectOps == MutatingOps \cup {"subprocess", "remove", "write"}

Said(msg) == \E i \in 1..Len(trace) : trace[i] = Say(msg)
Did(ops) == \E i \in 1..Len(trace) : trace[i].op \in ops

\* The calls of the given kinds, in order, without their exit status.
Calls(ops) ==
    LET Keep(e) == e.op \in ops
        kept == SelectSeq(trace, Keep)
    IN  [i \in 1..Len(kept) |-> <<kept[i].op, kept[i].tgt, kept[i].cmd>>]

\* The exit status of the exec_run of the given tool, -1 when it did not run.
ExitOf(tool) ==
    IF \E i \in 1..Len(trace) : trace[i].op = "exec" /\ trace[i].cmd = <<tool>>
    THEN trace[CHOOSE i \in 1..Len(trace) :
                   trace[i].op = "exec" /\ trace[i].cmd = <<tool>>].code
    ELSE 0 - 1

Command == IF Len(argv) > 1 THEN argv[2] ELSE ""
Generated(tree) == {f \in tree : f.dir = "migrations" /\ f # InitPy}

StopBackend == <<"stop", "backend", <<>>>>
StartBackend == <<"start", "backend", <<>>>>
DropDb == <<"exec", "db", <<"dropdb">>>>
CreateDb == <<"exec", "db", <<"createdb">>>>
MakeMigrations == <<"subprocess", "", <<"exec", "backend", "manage.py", "makemigrations">>>>
Migrate == <<"subprocess", "", <<"exec", "backend", "manage.py", "migrate">>>>

-----------------------------------------------------------------------------
(* C1 *)

\* C1: a command other than build, up and the help forms, invoked while some
\* declared service is not running, prints the "run up first" message and has
\* no side effect: nothing stopped, started, executed, spawned, written or deleted.
C1_RefusedHasNoSideEffect ==
    (/\ pc = "done"
     /\ Command \notin {"", "build", "up", "help", "-h", "--help"}
     /\ ~containers_running)
    => /\ Said("run up first")
       /\ ~Did(SideEffectOps)
       /\ migs = migs0
       /\ localFiles = files0

-----------------------------------------------------------------------------
(* C2 *)

RestoreCalled ==
    /\ Command = "restore"
    /\ containers_running
    /\ Len(argv) = 3
    /\ localFiles[argv[3]] # NoFile

\* C2: once restore_db has been called with a file that exists and the
\* invocation is over, the backend container is started, whatever the stop,
\* the copy and pg_restore did.
C2_BackendStartedAfterRestore ==
    (pc \in {"done", "crashed"} /\ RestoreCalled) => status["backend"] = "running"

-----------------------------------------------------------------------------
(* C3 *)

RestoreOfMissingFile ==
    /\ pc = "done"
    /\ Command = "restore"
    /\ containers_running
    /\ Len(argv) = 3
    /\ localFiles[argv[3]] = NoFile

\* C3 as stated: restore of a file that does not exist returns failure and the
\* whole invocation makes no call to the container runtime at all.
C3_NoRuntimeCallAtAll ==
    RestoreOfMissingFile => (ret = "False" /\ ~Did(RuntimeOps))

\* C3 as amended: restore of a file that does not exist returns failure and makes
\* no stop, copy, exec or start; the runtime calls of the invocation are the
\* lookups and status reads of are_containers_running, made before dispatch.
C3_NoMutatingRuntimeCall ==
    RestoreOfMissingFile =>
        /\ ret = "False"
        /\ ~Did(MutatingOps)
        /\ status = [c \in Containers |->
                        IF c \in Range(services) THEN "running" ELSE "absent"]
        /\ Calls(RuntimeOps) =
               [i \in 1..(2 * Len(services)) |->
                   <<IF i % 2 = 1 THEN "get" ELSE "status", services[(i + 1) \div 2], <<>>>>]

C3_Witness == RestoreOfMissingFile /\ Did({"get"}) /\ Said("File doesn't exists!")

-----------------------------------------------------------------------------
(* C4 *)

\* C4: dump writes the bytes pg_dump returned to the file named by its argument,
\* to db.dump without one, and returns True; when pg_dump exits non-zero it
\* returns False and no local file is created, truncated or written.
C4_DumpWritesOrFails ==
    (pc = "done" /\ Command = "dump" /\ containers_running) =>
        LET target == IF Len(argv) > 2 THEN argv[3] ELSE "db.dump"
        IN  /\ dump_result.code = 0 =>
                /\ ret = "True"
                /\ dump_result.out.kind = "dump"
                /\ localFiles = [files0 EXCEPT ![target] = dump_result.out]
            /\ dump_result.code # 0 =>
                /\ ret = "False"
                /\ localFiles = files0
                /\ ~Did({"write"})

\* A failed dump over a file an earlier dump wrote: the file is left as it was.
C4_Witness ==
    /\ pc = "done" /\ Command = "dump" /\ containers_running
    /\ Len(argv) = 2
    /\ dump_result.code # 0
    /\ ret = "False"
    /\ localFiles["db.dump"] = Archive("rows")

-----------------------------------------------------------------------------
(* C5 *)

\* C5: no invocation ends in an unhandled exception, whatever the command and
\* the number of arguments.
C5_NeverCrashes == pc # "crashed"

-----------------------------------------------------------------------------
(* C6 *)

InResetDjango == Command = "resetdjango" /\ containers_running /\ pc # "dispatch"

\* C6: resetdjango first leaves no generated migration file, then stops the
\* backend, drops and re-creates the database and starts the backend, then
\* issues makemigrations and migrate, in this order, the backend being stopped
\* during drop and create and started when the migrations are issued, and this
\* for every exit status of drop and create.
C6_ResetDjangoOrder ==
    InResetDjango =>
        /\ Generated(migs) \subseteq (IF pc = "done" THEN {Mig0001} ELSE {})
        /\ pc \in {"reset_db", "reset_drop", "reset_create", "reset_start", "migrate", "done"}
        /\ pc \in {"reset_create", "reset_start"} => status["backend"] = "exited"
        /\ pc = "reset_drop" => Calls(SideEffectOps \ {"remove"}) = <<StopBackend>>
        /\ pc = "migrate" =>
              /\ status["backend"] = "running"
              /\ Calls(SideEffectOps \ {"remove"}) =
                     <<StopBackend, DropDb, CreateDb, StartBackend>>
        /\ pc = "done" =>
              Calls(SideEffectOps \ {"remove"}) =
                  <<StopBackend, DropDb, CreateDb, StartBackend, MakeMigrations, Migrate>>

\* The migrations are issued although both dropdb and createdb failed.
C6_Witness ==
    /\ InResetDjango /\ pc = "done"
    /\ ExitOf("dropdb") = 1 /\ ExitOf("createdb") = 1
    /\ Did({"subprocess"})
    /\ Mig0001 \in migs0

-----------------------------------------------------------------------------
(* C7 *)

\* C7: a first argument that is no command prints "not found" and the usage
\* and has no side effect, whether the services run or not.
C7_UnknownCommandOnlyPrints ==
    (pc = "done" /\ Command \notin Commands \cup {""}) =>
        /\ Said("not found")
        /\ Said("usage")
        /\ ~Did(SideEffectOps)
        /\ migs = migs0
        /\ localFiles = files0

-----------------------------------------------------------------------------
(* C8 *)

\* C8: the dump file copied into the db container is the file pg_restore reads,
\* and a dump to a file followed by a restore of that file, both tools exiting
\* with status zero and the database not modified in between, leaves the
\* database with the content it had before the dump.
C8_RoundTrip ==
    /\ pc = "restore_exec" =>
          /\ ctrFiles[[dir |-> "/tmp", name |-> argv[3]]] = localFiles[argv[3]]
          /\ localFiles[argv[3]] # NoFile
    /\ (/\ pc \in {"restore_start", "done"}
        /\ Command = "restore" /\ containers_running /\ Len(argv) = 3
        /\ dump_result.code = 0
        /\ snap.file = argv[3])
       => db = snap.db

C8_Witness ==
    /\ pc = "done" /\ argv = <<Script, "restore", "db.dump">>
    /\ ret = "True"
    /\ snap = [file |-> "db.dump", db |-> "rows"]
    /\ db = "rows"
    /\ ctrFiles[[dir |-> "/tmp", name |-> "db.dump"]] = Archive("rows")

-----------------------------------------------------------------------------
(* C9 *)

InResetDb ==
    /\ Command \in {"resetdb", "resetdjango"}
    /\ containers_running
    /\ pc \notin {"dispatch", "reset_db"}

\* C9: reset_db runs stop, drop, create, start in this order, a non-zero exit
\* of drop skips neither the create nor the start, and it returns False exactly
\* when drop exited non-zero, whatever create did.
C9_ResetDbOrder ==
    InResetDb =>
        LET calls == Calls(MutatingOps)
        IN  /\ pc \in {"reset_drop", "reset_create", "reset_start", "migrate", "done"}
            /\ pc = "reset_drop" => calls = <<StopBackend>>
            /\ pc = "reset_create" => calls = <<StopBackend, DropDb>>
            /\ pc = "reset_start" => calls = <<StopBackend, DropDb, CreateDb>>
            /\ pc \in {"migrate", "done"} =>
                  /\ calls = <<StopBackend, DropDb, CreateDb, StartBackend>>
                  /\ status["backend"] = "running"
                  /\ ret = PyBool(ExitOf("dropdb") = 0)
                  /\ ret = "False" <=> dump_result.code # 0

\* The drop worked and the create failed: reset_db still returned True.
C9_Witness ==
    /\ InResetDb /\ pc = "done" /\ Command = "resetdb"
    /\ ExitOf("dropdb") = 0 /\ ExitOf("createdb") = 1
    /\ ret = "True"
    /\ db = NoDb

-----------------------------------------------------------------------------
(* C10 *)

====
